---- MODULE Spec2Model ----
(***************************************************************************)
(* RouteOptimizer of ml-service/services/route_optimizer.py as a state     *)
(* machine: one call of optimize, from its arguments to the                *)
(* OptimizationResult it returns or the exception that leaves it; a call   *)
(* of optimize_simple around it; and a caller that solves a second time on *)
(* the same optimizer.                                                     *)
(*                                                                         *)
(* Geometry: every location lies on the meridian longitude = 0 at a whole  *)
(* number of degrees of latitude, so the great-circle distance is the      *)
(* earth radius times the difference of the latitudes in radians.          *)
(* Numbers: the floats of the code (kilometres, costs) are fixed-point     *)
(* integers in units of 10^-4, so 1 km is 10000 and round(x, 2) keeps a    *)
(* multiple of 100; metres and the minutes of a route are integers.        *)
(* Python indexes from 0; locations and vehicles are TLA+ sequences, and   *)
(* Loc(i) is locations[i] of the code.                                     *)
(***************************************************************************)
EXTENDS Integers, Sequences, FiniteSets, TLC

\* ---- bounds of the model ----
MaxLocs == 3
MaxVehicles == 2

\* ---- the values the inputs are drawn from ----
Latitudes == {0, 1}
Demands == {0, 1, 2}
Capacities == {1, 2}
DepotIndexes == {-1, 0, 1}
WaypointLimits == {MaxLocs - 1, MaxLocs}
VehicleLimits == {MaxVehicles - 1, MaxVehicles}
Rates == {1, 2}
Objectives == {"distance", "time"}
ServiceTimes == {0, 10, 25}

\* Optional[...] = None
None == -1

\* ROUTE_MAX_... are read from the configuration; the other settings keep
\* their defaults
average_speed_kmh == 40
DefaultCapacity == 1000
DefaultServiceTime == 10
MaxDistancePerVehicle == 100000000
TimeSlack == 30
MaxTimePerVehicle == 1440

VARIABLES
    ORTOOLS_AVAILABLE,  \* module flag set by the import of OR-Tools
    max_waypoints,      \* self.max_waypoints
    max_vehicles,       \* self.max_vehicles
    locations,          \* argument: the list of Location records
    arg_vehicles,       \* argument: [is_none, items]
    depot_index,        \* argument
    objective,          \* argument
    vehicles,           \* local of optimize after the conversion
    pc,                 \* where the call is
    calls,              \* the solvers entered so far, in order
    distance_matrix,    \* _ortools_optimize: rows of metres
    time_matrix,        \* _ortools_optimize: rows of minutes
    unvisited,          \* _fallback_optimize: set of location indexes
    routes,             \* _fallback_optimize: routes appended so far
    total_distance,     \* _fallback_optimize: km of the routes appended
    vehicle_pos,        \* _fallback_optimize: position of the for loop
    route_stops,        \* _fallback_optimize: stops of the current route
    current,            \* _fallback_optimize: index of the current location
    route_distance,     \* _fallback_optimize: km of the current route
    capacity_used,      \* _fallback_optimize: demand loaded on the route
    result,             \* the OptimizationResult returned
    raised,             \* the exception that left optimize ("" = none)
    entry,              \* caller: the method it called
    waypoints,          \* optimize_simple: argument, the latitudes
    depot,              \* optimize_simple: argument, a latitude or None
    returned,           \* optimize_simple: the dictionary it returns
    previous,           \* caller: [result, calls] of its first solve
    change,             \* caller: what it changed for its second solve
    other               \* the frame of a second call, while it is not running

vars == <<ORTOOLS_AVAILABLE, max_waypoints, max_vehicles, locations,
          arg_vehicles, depot_index, objective, vehicles, pc, calls,
          distance_matrix, time_matrix, unvisited, routes, total_distance,
          vehicle_pos, route_stops, current, route_distance, capacity_used,
          result, raised, entry, waypoints, depot, returned, previous,
          change, other>>

inputs == <<ORTOOLS_AVAILABLE, max_waypoints, max_vehicles, locations,
            arg_vehicles, depot_index, objective>>

exact_locals == <<distance_matrix, time_matrix>>

fallback_locals == <<unvisited, routes, total_distance, vehicle_pos,
                     route_stops, current, route_distance, capacity_used>>

caller == <<entry, waypoints, depot, returned, previous, change, other>>

\* ---- data model ----

\* Location(id, latitude, longitude = 0, demand, time windows, service_time)
Location(i, lat, dem, tws, twe) ==
    [id |-> "loc_" \o ToString(i), latitude |-> lat, demand |-> dem,
     time_window_start |-> tws, time_window_end |-> twe,
     service_time |-> DefaultServiceTime]

\* Vehicle(id, capacity, start_location_idx, end_location_idx, cost_per_km)
VehicleWith(name, cap, start, end, rate) ==
    [id |-> name, capacity |-> cap, start_location_idx |-> start,
     end_location_idx |-> end, cost_per_km |-> rate]

\* Vehicle(id, capacity): start_location_idx = 0, end_location_idx = None,
\* cost_per_km = 1.0
Vehicle(name, cap) == VehicleWith(name, cap, 0, None, 1)

\* faulty variant of the default below
DefaultVehiclesUnnumbered == <<Vehicle("vehicle", DefaultCapacity)>>

\* vehicles = [Vehicle(id='vehicle_1', capacity=1000)]
DefaultVehicles == <<Vehicle("vehicle_1", DefaultCapacity)>>

\* OptimizationResult(success, routes, unassigned_locations, solver_status),
\* the totals keeping their default 0.0; the clock is not modelled, and
\* computation_time_ms is 0.0 in every result a solver builds
OptimizationResult(ok, rts, unassigned, status) ==
    [success |-> ok, routes |-> rts, total_distance_km |-> 0,
     total_time_minutes |-> 0, total_cost |-> 0,
     unassigned_locations |-> unassigned, computation_time_ms |-> 0,
     solver_status |-> status]

\* a whole number of minutes in the unit of the float fields
WholeMinutes(t) == t * 10000

\* OptimizationResult(..., total_distance_km, total_time_minutes, total_cost):
\* both solvers pass a whole number of minutes
WithTotals(res, distance, time, cost) ==
    [res EXCEPT !.total_distance_km = distance,
                !.total_time_minutes = WholeMinutes(time),
                !.total_cost = cost]

NoResult == OptimizationResult(FALSE, <<>>, <<>>, "")

\* round(x, 2) of a non-negative x
Round2(x) == ((x + 50) \div 100) * 100

\* round(x, 1) of a non-negative x
Round1(x) == ((x + 500) \div 1000) * 1000

\* faulty variant of the dictionary below: the totals as they are
to_dict_unrounded(res) ==
    [success |-> res.success,
     routes |-> res.routes,
     total_distance_km |-> res.total_distance_km,
     total_time_minutes |-> res.total_time_minutes,
     total_cost |-> res.total_cost,
     unassigned_locations |-> res.unassigned_locations,
     computation_time_ms |-> res.computation_time_ms,
     solver_status |-> res.solver_status,
     model_version |-> "1.0.0"]

\* OptimizationResult.to_dict: the totals rounded; model_version keeps its
\* default in every result
to_dict(res) ==
    [success |-> res.success,
     routes |-> res.routes,
     total_distance_km |-> Round2(res.total_distance_km),
     total_time_minutes |-> Round1(res.total_time_minutes),
     total_cost |-> Round2(res.total_cost),
     unassigned_locations |-> res.unassigned_locations,
     computation_time_ms |-> Round2(res.computation_time_ms),
     solver_status |-> res.solver_status,
     model_version |-> "1.0.0"]

NoDict == [success |-> FALSE]

\* locations[i] of the code, i counted from 0
Loc(i) == locations[i + 1]

NumLocations == Len(locations)

\* faulty variant of the entry below: every stop is numbered 0
StopUnnumbered(i, seq) ==
    [location_id |-> Loc(i).id, latitude |-> Loc(i).latitude, sequence |-> 0]

\* one entry of route_stops
Stop(i, seq) ==
    [location_id |-> Loc(i).id, latitude |-> Loc(i).latitude,
     sequence |-> seq]

\* ---- geometry and matrices ----

Abs(x) == IF x < 0 THEN 0 - x ELSE x

\* EARTH_RADIUS_KM * c for two points of the same meridian:
\* 6371 * pi / 180 = 111.1949 km for each degree of latitude
haversine_distance(lat1, lat2) == 1111949 * Abs(lat2 - lat1)

\* faulty variant of the entry below: only the entries above the diagonal
\* are filled
compute_distance_matrix_upper(i, j) ==
    IF i < j
    THEN haversine_distance(Loc(i).latitude, Loc(j).latitude) \div 10
    ELSE 0

\* matrix[i][j] = int(dist * 1000), 0 on the diagonal
compute_distance_matrix(i, j) ==
    IF i = j THEN 0
    ELSE haversine_distance(Loc(i).latitude, Loc(j).latitude) \div 10

\* faulty variant of the entry below: the service time of the origin i
compute_time_matrix_origin(i, j) ==
    IF i = j THEN 0
    ELSE (compute_distance_matrix(i, j) * 60) \div (average_speed_kmh * 1000)
         + Loc(i).service_time

\* matrix[i][j] = int(distance / speed_m_per_min + service_time of j)
compute_time_matrix(i, j) ==
    IF i = j THEN 0
    ELSE (compute_distance_matrix(i, j) * 60) \div (average_speed_kmh * 1000)
         + Loc(j).service_time

\* the matrices as _ortools_optimize holds them: a list of rows
DistanceMatrix ==
    [r \in 1 .. Len(locations) |->
        [c \in 1 .. Len(locations) |-> compute_distance_matrix(r - 1, c - 1)]]

TimeMatrix ==
    [r \in 1 .. Len(locations) |->
        [c \in 1 .. Len(locations) |-> compute_time_matrix(r - 1, c - 1)]]

\* ---- helpers over sets and sequences ----

RECURSIVE SumDemand(_)
SumDemand(s) ==
    IF s = <<>> THEN 0 ELSE Loc(Head(s)).demand + SumDemand(Tail(s))

RECURSIVE PathDistance(_)
PathDistance(path) ==
    IF Len(path) < 2 THEN 0
    ELSE compute_distance_matrix(path[1], path[2]) + PathDistance(Tail(path))

\* the minutes along a path, from the time matrix
RECURSIVE PathTime(_)
PathTime(path) ==
    IF Len(path) < 2 THEN 0
    ELSE compute_time_matrix(path[1], path[2]) + PathTime(Tail(path))

RECURSIVE Orderings(_)
Orderings(S) ==
    IF S = {} THEN {<<>>}
    ELSE UNION { { <<x>> \o t : t \in Orderings(S \ {x}) } : x \in S }

\* the elements of a set of integers in increasing order: the order in
\* which CPython iterates over a set of small non-negative integers
RECURSIVE Ascending(_)
Ascending(S) ==
    IF S = {} THEN <<>>
    ELSE LET m == CHOOSE x \in S : \A y \in S : x <= y
         IN  <<m>> \o Ascending(S \ {m})

Min(a, b) == IF a < b THEN a ELSE b
Max(a, b) == IF a > b THEN a ELSE b

ValidIndex(i) == i \in 0 .. (NumLocations - 1)

\* ---- the exact solver: the constraint model of _ortools_optimize ----

\* faulty variant of the test below: one declared bound is enough
HasWindowEither(i) ==
    Loc(i).time_window_start # None \/ Loc(i).time_window_end # None

\* a location that declares both ends of its time window
HasWindow(i) ==
    Loc(i).time_window_start # None /\ Loc(i).time_window_end # None

has_time_windows == \E i \in 0 .. (NumLocations - 1) : HasWindow(i)

\* the nodes vehicle v passes through when it serves seq
PathOf(seq) == <<depot_index>> \o seq \o <<depot_index>>

\* 'Capacity': the cumul starts at zero and grows by the demand of every
\* node the vehicle leaves, the start node included, up to v.capacity
CapacityDimension(v, seq) ==
    Loc(depot_index).demand + SumDemand(seq) <= vehicles[v].capacity

\* 'Distance': no slack, at most 100000000 metres for each vehicle
DistanceDimension(seq) ==
    PathDistance(PathOf(seq)) <= MaxDistancePerVehicle

\* 'Time': the cumul at path[k] can take the values lo..hi; the next cumul
\* is this one plus the transit plus a slack of 0..30, at most 1440, and
\* inside the window of the next node when that node declares one (the end
\* node of a route carries no window)
RECURSIVE TimeReachable(_, _, _, _)
TimeReachable(path, k, lo, hi) ==
    IF lo > hi THEN FALSE
    ELSE IF k = Len(path) THEN TRUE
    ELSE LET nxt == path[k + 1]
             tr == compute_time_matrix(path[k], nxt)
             w == (k + 1 < Len(path)) /\ HasWindow(nxt)
             nlo == IF w THEN Max(lo + tr, Loc(nxt).time_window_start)
                    ELSE lo + tr
             nhi == IF w
                    THEN Min(Min(hi + tr + TimeSlack, MaxTimePerVehicle),
                             Loc(nxt).time_window_end)
                    ELSE Min(hi + tr + TimeSlack, MaxTimePerVehicle)
         IN  TimeReachable(path, k + 1, nlo, nhi)

\* the window of the depot is set on NodeToIndex(depot_index), which is the
\* start of the first vehicle
TimeDimension(v, seq) ==
    \/ ~has_time_windows
    \/ LET w == (v = 1) /\ HasWindow(depot_index)
           lo == IF w THEN Max(0, Loc(depot_index).time_window_start) ELSE 0
           hi == IF w THEN Min(MaxTimePerVehicle, Loc(depot_index).time_window_end)
                 ELSE MaxTimePerVehicle
       IN  TimeReachable(PathOf(seq), 1, lo, hi)

RouteFeasible(v, seq) ==
    /\ CapacityDimension(v, seq)
    /\ DistanceDimension(seq)
    /\ TimeDimension(v, seq)

\* the assignments the routing model admits: one sequence of deliveries for
\* each vehicle from v on, every location of rest in exactly one of them
\* (no disjunction is added, so no location may be dropped)
RECURSIVE PlansFrom(_, _)
PlansFrom(v, rest) ==
    IF v > Len(vehicles)
    THEN IF rest = {} THEN {<<>>} ELSE {}
    ELSE UNION { UNION { { <<seq>> \o more : more \in PlansFrom(v + 1, rest \ T) }
                         : seq \in { q \in Orderings(T) : RouteFeasible(v, q) } }
                 : T \in SUBSET rest }

\* what SolveWithParameters may return
ExactSolutions ==
    PlansFrom(1, (0 .. (NumLocations - 1)) \ {depot_index})

\* _get_solver_status
get_solver_status(status) ==
    CASE status = 0 -> "ROUTING_NOT_SOLVED"
      [] status = 1 -> "ROUTING_SUCCESS"
      [] status = 2 -> "ROUTING_PARTIAL_SUCCESS_LOCAL_OPTIMUM_NOT_REACHED"
      [] status = 3 -> "ROUTING_FAIL"
      [] status = 4 -> "ROUTING_FAIL_TIMEOUT"
      [] status = 5 -> "ROUTING_INVALID"
      [] OTHER -> "UNKNOWN_" \o ToString(status)

\* routing.status() after a search that found nothing / found a solution
FailureStatuses == {3, 4}
SolutionStatuses == {1, 2}

\* route_stops of one vehicle: every node of its path with its sequence
StopsOf(path) == [k \in 1 .. Len(path) |-> Stop(path[k], k - 1)]

\* faulty variants of the test below: a route with a single delivery is
\* dropped too, and no route is dropped
KeepRouteLonger(stops) == Len(stops) > 3
KeepRouteAlways(stops) == TRUE

\* if len(route_stops) > 2: more than just depot -> depot
KeepRoute(stops) == Len(stops) > 2

\* faulty variant of the cost below: the rate of the vehicle is left out
RouteCostFlat(distance, vehicle) == Round2(distance)

\* 'cost': round(route_distance_km * vehicle.cost_per_km, 2)
RouteCost(distance, vehicle) == Round2(distance * vehicle.cost_per_km)

\* route_distance_km = route_distance / 1000
RouteDistanceKm(path) == PathDistance(path) * 10

\* one entry of routes
Route(vehicle, stops, distance, time) ==
    [vehicle_id |-> vehicle.id,
     stops |-> stops,
     distance_km |-> Round2(distance),
     time_minutes |-> time,
     cost |-> RouteCost(distance, vehicle)]

\* the routes list built from the solution, vehicle by vehicle
RECURSIVE ExtractRoutes(_, _)
ExtractRoutes(plan, v) ==
    IF v > Len(vehicles) THEN <<>>
    ELSE LET path == PathOf(plan[v])
             stops == StopsOf(path)
         IN  (IF KeepRoute(stops)
              THEN <<Route(vehicles[v], stops, RouteDistanceKm(path),
                           PathTime(path))>>
              ELSE <<>>) \o ExtractRoutes(plan, v + 1)

\* total_distance, total_time and total_cost after the vehicles from v on:
\* the sums over the routes kept, of the values before rounding
RECURSIVE ExtractTotals(_, _)
ExtractTotals(plan, v) ==
    IF v > Len(vehicles)
    THEN [distance |-> 0, time |-> 0, cost |-> 0]
    ELSE LET path == PathOf(plan[v])
             rest == ExtractTotals(plan, v + 1)
         IN  IF KeepRoute(StopsOf(path))
             THEN [distance |-> RouteDistanceKm(path) + rest.distance,
                   time |-> PathTime(path) + rest.time,
                   cost |-> RouteDistanceKm(path) * vehicles[v].cost_per_km
                            + rest.cost]
             ELSE rest

\* the OptimizationResult built from a solution
ExactResult(plan, status) ==
    LET totals == ExtractTotals(plan, 1)
    IN  WithTotals(OptimizationResult(TRUE, ExtractRoutes(plan, 1), <<>>,
                       IF status = 1 THEN "OPTIMAL" ELSE "FEASIBLE"),
                   totals.distance, totals.time, totals.cost)

\* ---- the fallback heuristic: helpers of _fallback_optimize ----

\* faulty variants of the capacity test: < for <=, no test at all, and a
\* test that also turns away a location whose time window is over
FitsCapacityStrict(loc_idx) ==
    capacity_used + Loc(loc_idx).demand < vehicles[vehicle_pos].capacity
FitsCapacityAlways(loc_idx) == TRUE
FitsCapacityInWindow(loc_idx) ==
    /\ capacity_used + Loc(loc_idx).demand <= vehicles[vehicle_pos].capacity
    /\ Loc(loc_idx).time_window_end = None \/ Loc(loc_idx).time_window_end > 0

\* faulty variant of the capacity test: only an empty vehicle loads
FitsCapacityEmpty(loc_idx) ==
    capacity_used = 0 /\ Loc(loc_idx).demand <= vehicles[vehicle_pos].capacity

\* capacity_used + locations[loc_idx].demand <= vehicle.capacity
FitsCapacity(loc_idx) ==
    capacity_used + Loc(loc_idx).demand <= vehicles[vehicle_pos].capacity

\* the for loop over unvisited: nearest and nearest_dist after the
\* locations order[k..] were looked at, a nearer one replacing the one held
\* only when dist < nearest_dist (nearest_dist is inf while nearest is None)
RECURSIVE ScanNearest(_, _, _, _)
ScanNearest(order, k, nearest, nearest_dist) ==
    IF k > Len(order) THEN nearest
    ELSE LET loc_idx == order[k]
             dist == haversine_distance(Loc(current).latitude,
                                        Loc(loc_idx).latitude)
         IN  IF FitsCapacity(loc_idx) /\ (nearest = None \/ dist < nearest_dist)
             THEN ScanNearest(order, k + 1, loc_idx, dist)
             ELSE ScanNearest(order, k + 1, nearest, nearest_dist)

\* faulty variant of the choice below: the first location that fits,
\* however far it is
FirstThatFits ==
    LET fits == { i \in unvisited : FitsCapacity(i) }
    IN  IF fits = {} THEN None ELSE CHOOSE i \in fits : \A j \in fits : i <= j

Nearest == ScanNearest(Ascending(unvisited), 1, None, 0)

\* faulty variant of the list below: the routes of the solve before are kept
KeptRoutes == routes

\* routes = []
FreshRoutes == <<>>

\* int(route_distance / self.average_speed_kmh * 60)
TravelMinutes(distance) ==
    (distance * 60) \div (average_speed_kmh * 10000)

\* sum(r['cost'] for r in routes)
RECURSIVE SumCost(_)
SumCost(rts) ==
    IF rts = <<>> THEN 0 ELSE Head(rts).cost + SumCost(Tail(rts))

\* unassigned = [locations[i].id for i in unvisited]
Unassigned ==
    LET order == Ascending(unvisited)
    IN  [k \in 1 .. Len(order) |-> Loc(order[k]).id]

\* success=True of the result the fallback returns
FallbackSuccess == TRUE

HeuristicStatus == "HEURISTIC (nearest neighbor)"

\* ---- the call ----

\* if len(locations) < 2
TooFewLocations == NumLocations < 2

\* faulty variant of the test below: no limit is checked
NoWaypointLimit == FALSE

\* if len(locations) > self.max_waypoints
TooManyWaypoints == NumLocations > max_waypoints

\* isinstance(vehicles[0], dict) on an empty list
EmptyVehicleList == ~arg_vehicles.is_none /\ arg_vehicles.items = <<>>

\* optimize, lines 233-268 without the bodies of the two solvers: the
\* conversion of the arguments, the validation and the choice of the solver
Optimize ==
    /\ pc = "optimize"
    /\ IF EmptyVehicleList
       THEN /\ pc' = "raised"
            /\ raised' = "IndexError"
            /\ UNCHANGED <<vehicles, result, calls>>
       ELSE /\ vehicles' = IF arg_vehicles.is_none THEN DefaultVehicles
                           ELSE arg_vehicles.items
            /\ raised' = raised
            /\ IF TooFewLocations
               THEN /\ result' = OptimizationResult(FALSE, <<>>, <<>>,
                          "Need at least 2 locations (depot + 1 delivery)")
                    /\ pc' = "done"
                    /\ calls' = calls
               ELSE IF TooManyWaypoints
               THEN /\ result' = OptimizationResult(FALSE, <<>>, <<>>,
                          "Too many waypoints. Max: " \o ToString(max_waypoints))
                    /\ pc' = "done"
                    /\ calls' = calls
               ELSE IF ~ORTOOLS_AVAILABLE
               THEN /\ pc' = "fallback"
                    /\ calls' = Append(calls, "fallback")
                    /\ result' = result
               ELSE /\ pc' = "ortools"
                    /\ calls' = Append(calls, "ortools")
                    /\ result' = result
    /\ UNCHANGED <<inputs, exact_locals, fallback_locals, caller>>

\* faulty variant of the result below: a search that found nothing is
\* reported as a success
NoSolutionSucceeds(status) ==
    OptimizationResult(TRUE, <<>>, <<>>, get_solver_status(status))

\* the OptimizationResult built when SolveWithParameters found nothing
NoSolutionResult(status) ==
    OptimizationResult(FALSE, <<>>, <<>>, get_solver_status(status))

\* _ortools_optimize and the except clause around it. The routing library
\* is not part of the repository: it raises (always possible, and the only
\* outcome for a depot that is no node), or it finds no assignment when the
\* model admits none, or it returns one of the assignments the model admits
OrtoolsOptimize ==
    /\ pc = "ortools"
    /\ distance_matrix' = DistanceMatrix
    /\ time_matrix' = TimeMatrix
    /\ \/ /\ pc' = "fallback"
          /\ calls' = Append(calls, "fallback")
          /\ result' = result
       \/ /\ ValidIndex(depot_index)
          /\ ExactSolutions = {}
          /\ \E status \in FailureStatuses :
                result' = NoSolutionResult(status)
          /\ pc' = "done"
          /\ calls' = calls
       \/ /\ ValidIndex(depot_index)
          /\ \E plan \in ExactSolutions, status \in SolutionStatuses :
                result' = ExactResult(plan, status)
          /\ pc' = "done"
          /\ calls' = calls
    /\ UNCHANGED <<inputs, vehicles, fallback_locals, raised, caller>>

\* unvisited = set(range(len(locations))); unvisited.remove(depot_index)
FallbackInit ==
    /\ pc = "fallback"
    /\ IF ValidIndex(depot_index)
       THEN /\ unvisited' = (0 .. (NumLocations - 1)) \ {depot_index}
            /\ routes' = FreshRoutes
            /\ total_distance' = 0
            /\ vehicle_pos' = 1
            /\ pc' = "vehicle"
            /\ raised' = raised
       ELSE /\ pc' = "raised"
            /\ raised' = "KeyError"
            /\ UNCHANGED <<unvisited, routes, total_distance, vehicle_pos>>
    /\ UNCHANGED <<inputs, vehicles, calls, exact_locals, route_stops, current,
                   route_distance, capacity_used, result, caller>>

\* for vehicle in vehicles: if not unvisited: break; a new route at the depot
VehicleLoop ==
    /\ pc = "vehicle"
    /\ IF vehicle_pos > Len(vehicles) \/ unvisited = {}
       THEN /\ pc' = "return"
            /\ UNCHANGED <<route_stops, current, route_distance,
                           capacity_used>>
       ELSE /\ route_stops' = <<Stop(depot_index, 0)>>
            /\ current' = depot_index
            /\ route_distance' = 0
            /\ capacity_used' = 0
            /\ pc' = "select"
    /\ UNCHANGED <<inputs, vehicles, calls, exact_locals, unvisited, routes,
                   total_distance, vehicle_pos, result, raised, caller>>

\* faulty variant of the removal below: the location stays in the set
RemoveNothing(S, x) == S

\* unvisited.remove(nearest)
Remove(S, x) == S \ {x}

\* one turn of while unvisited: the nearest location that fits is visited,
\* or the loop ends
SelectNearest ==
    /\ pc = "select"
    /\ IF unvisited = {} \/ Nearest = None
       THEN /\ pc' = "close"
            /\ UNCHANGED <<unvisited, route_stops, current, route_distance,
                           capacity_used>>
       ELSE /\ unvisited' = Remove(unvisited, Nearest)
            /\ route_distance' =
                   route_distance + haversine_distance(Loc(current).latitude,
                                                       Loc(Nearest).latitude)
            /\ capacity_used' = capacity_used + Loc(Nearest).demand
            /\ current' = Nearest
            /\ route_stops' = Append(route_stops, Stop(Nearest, Len(route_stops)))
            /\ pc' = "select"
    /\ UNCHANGED <<inputs, vehicles, calls, exact_locals, routes,
                   total_distance, vehicle_pos, result, raised, caller>>

\* the return to the depot; the route is kept when it has a stop
CloseRoute ==
    /\ pc = "close"
    /\ LET stops == Append(route_stops, Stop(depot_index, Len(route_stops)))
           distance ==
               route_distance + haversine_distance(Loc(current).latitude,
                                                   Loc(depot_index).latitude)
       IN  /\ route_stops' = stops
           /\ route_distance' = distance
           /\ IF KeepRoute(stops)
              THEN /\ routes' = Append(routes,
                                    Route(vehicles[vehicle_pos], stops,
                                          distance, TravelMinutes(distance)))
                   /\ total_distance' = total_distance + distance
              ELSE UNCHANGED <<routes, total_distance>>
    /\ vehicle_pos' = vehicle_pos + 1
    /\ pc' = "vehicle"
    /\ UNCHANGED <<inputs, vehicles, calls, exact_locals, unvisited, current,
                   capacity_used, result, raised, caller>>

\* return OptimizationResult(success=True, routes=routes, ...)
FallbackReturn ==
    /\ pc = "return"
    /\ result' = WithTotals(OptimizationResult(FallbackSuccess, routes,
                                               Unassigned, HeuristicStatus),
                            total_distance, TravelMinutes(total_distance),
                            SumCost(routes))
    /\ pc' = "done"
    /\ UNCHANGED <<inputs, vehicles, calls, exact_locals, fallback_locals,
                   raised, caller>>

\* ---- optimize_simple ----

\* Location(id='depot', latitude, longitude, name='Depot', demand=0)
DepotRecord(lat) ==
    [id |-> "depot", latitude |-> lat, demand |-> 0,
     time_window_start |-> None, time_window_end |-> None,
     service_time |-> DefaultServiceTime]

\* Location(id=f'stop_{i}', latitude, longitude, name, demand=1)
StopRecord(i, lat) ==
    [id |-> "stop_" \o ToString(i), latitude |-> lat, demand |-> 1,
     time_window_start |-> None, time_window_end |-> None,
     service_time |-> DefaultServiceTime]

\* faulty variant of the list below: without a depot given, the first
\* waypoint is the depot and a stop as well
SimpleLocationsKeepFirst(wps, dep) ==
    (IF dep # None THEN <<DepotRecord(dep)>>
     ELSE IF wps # <<>> THEN <<DepotRecord(wps[1])>> ELSE <<>>)
    \o [k \in 1 .. Len(wps) |-> StopRecord(k - 1, wps[k])]

\* the list optimize_simple builds: the depot when one is given, then the
\* waypoints, the first of them as the depot when none is given
SimpleLocations(wps, dep) ==
    (IF dep # None THEN <<DepotRecord(dep)>> ELSE <<>>)
    \o [k \in 1 .. Len(wps) |->
           IF dep = None /\ k = 1 THEN DepotRecord(wps[k])
           ELSE StopRecord(k - 1, wps[k])]

\* optimize_simple up to its call self.optimize(locations): the arguments of
\* that call are the list built and the defaults of optimize
OptimizeSimple ==
    /\ pc = "simple"
    /\ locations' = SimpleLocations(waypoints, depot)
    /\ arg_vehicles' = [is_none |-> TRUE, items |-> <<>>]
    /\ depot_index' = 0
    /\ objective' = "distance"
    /\ pc' = "optimize"
    /\ UNCHANGED <<ORTOOLS_AVAILABLE, max_waypoints, max_vehicles, vehicles,
                   calls, exact_locals, fallback_locals, result, raised,
                   caller>>

\* return result.to_dict()
SimpleReturn ==
    /\ pc = "done"
    /\ entry = "optimize_simple"
    /\ returned' = to_dict(result)
    /\ pc' = "returned"
    /\ UNCHANGED <<inputs, vehicles, calls, exact_locals, fallback_locals,
                   result, raised, entry, waypoints, depot, previous, change,
                   other>>

\* ---- a caller that solves twice on the same optimizer ----

\* the locations with every time window replaced by w
WithWindows(locs, w) ==
    [k \in 1 .. Len(locs) |->
        [locs[k] EXCEPT !.time_window_start = w[1], !.time_window_end = w[2]]]

\* the vehicles with the cost_per_km of each replaced by rates[k]
WithRates(vs, rates) ==
    [k \in 1 .. Len(vs) |-> [vs[k] EXCEPT !.cost_per_km = rates[k]]]

\* every location declares the same window: none, the whole day, or a
\* window that closes before any service can end
Windows == { <<None, None>>, <<0, MaxTimePerVehicle>>, <<0, 0>> }

\* optimizer.optimize(...) of a later request, on the optimizer the first
\* request used: with the same arguments or with other time windows (both
\* while the exact solver is disabled), or with other cost_per_km values and
\* another objective
SolveAgain ==
    /\ pc = "done"
    /\ change = ""
    /\ calls # <<>>
    /\ previous' = [result |-> result, calls |-> calls]
    /\ \/ /\ change' = "none"
          /\ ~ORTOOLS_AVAILABLE
          /\ UNCHANGED <<locations, arg_vehicles, objective>>
       \/ /\ change' = "windows"
          /\ ~ORTOOLS_AVAILABLE
          /\ \E w \in Windows :
                /\ WithWindows(locations, w) # locations
                /\ locations' = WithWindows(locations, w)
          /\ UNCHANGED <<arg_vehicles, objective>>
       \/ /\ change' = "reporting"
          /\ ~arg_vehicles.is_none
          /\ \/ /\ \E rates \in [1 .. Len(arg_vehicles.items) -> Rates] :
                      /\ WithRates(arg_vehicles.items, rates)
                             # arg_vehicles.items
                      /\ arg_vehicles' =
                             [arg_vehicles EXCEPT
                                 !.items = WithRates(arg_vehicles.items, rates)]
                /\ objective' = objective
             \/ /\ \E o \in Objectives \ {objective} : objective' = o
                /\ arg_vehicles' = arg_vehicles
          /\ UNCHANGED locations
    /\ pc' = "optimize"
    /\ calls' = <<>>
    /\ result' = NoResult
    /\ UNCHANGED <<ORTOOLS_AVAILABLE, max_waypoints, max_vehicles,
                   depot_index, vehicles, exact_locals, fallback_locals,
                   raised, entry, waypoints, depot, returned, other>>

\* ---- two calls at the same time on the same optimizer ----

\* what belongs to one call of optimize: its arguments, the locals of
\* optimize and of the two solvers, and what it returns or raises. The
\* fields of the optimizer and the module flag belong to no call.
Frame(thread) ==
    [thread |-> thread,
     locations |-> locations, arg_vehicles |-> arg_vehicles,
     depot_index |-> depot_index, objective |-> objective,
     vehicles |-> vehicles, pc |-> pc, calls |-> calls,
     distance_matrix |-> distance_matrix, time_matrix |-> time_matrix,
     unvisited |-> unvisited, routes |-> routes,
     total_distance |-> total_distance, vehicle_pos |-> vehicle_pos,
     route_stops |-> route_stops, current |-> current,
     route_distance |-> route_distance, capacity_used |-> capacity_used,
     result |-> result, raised |-> raised]

NoFrame == [thread |-> 0]

\* the frame of a call that has not taken a step
NewFrame(thread, locs, vs, dep) ==
    [thread |-> thread,
     locations |-> locs, arg_vehicles |-> vs,
     depot_index |-> dep, objective |-> "distance",
     vehicles |-> <<>>, pc |-> "optimize", calls |-> <<>>,
     distance_matrix |-> <<>>, time_matrix |-> <<>>,
     unvisited |-> {}, routes |-> <<>>,
     total_distance |-> 0, vehicle_pos |-> 0,
     route_stops |-> <<>>, current |-> None,
     route_distance |-> 0, capacity_used |-> 0,
     result |-> NoResult, raised |-> ""]

\* faulty variant of the list below: routes is kept on the optimizer, one
\* list for all the calls
routes_shared(frame) == routes

\* routes = []: a local name of _fallback_optimize, a list of its own for
\* every call
routes_of(frame) == frame.routes

\* the arguments of the second request
OtherLocationLists ==
    { <<Location(11, 0, 0, None, None), Location(12, lat, 2, None, None)>>
      : lat \in Latitudes }

OtherVehicles == [is_none |-> FALSE, items |-> <<Vehicle("van_1", 2)>>]

\* two requests arrive at the optimizer the first request used: one repeats
\* the arguments of the first request, the other brings its own
SolveTogether ==
    /\ pc = "done"
    /\ change = ""
    /\ calls # <<>>
    /\ entry = "optimize"
    /\ previous' = [result |-> result, calls |-> calls]
    /\ change' = "together"
    /\ \E locs \in OtherLocationLists :
          other' = NewFrame(2, locs, OtherVehicles, 0)
    /\ pc' = "optimize"
    /\ calls' = <<>>
    /\ result' = NoResult
    /\ UNCHANGED <<inputs, vehicles, exact_locals, fallback_locals, raised,
                   entry, waypoints, depot, returned>>

\* the interpreter leaves the running call for the other one: every name
\* of the frame is the other call's, the optimizer and the module stay
Switch ==
    /\ change = "together"
    /\ other.pc \notin {"done", "raised"}
    /\ other' = Frame(3 - other.thread)
    /\ locations' = other.locations
    /\ arg_vehicles' = other.arg_vehicles
    /\ depot_index' = other.depot_index
    /\ objective' = other.objective
    /\ vehicles' = other.vehicles
    /\ pc' = other.pc
    /\ calls' = other.calls
    /\ distance_matrix' = other.distance_matrix
    /\ time_matrix' = other.time_matrix
    /\ unvisited' = other.unvisited
    /\ routes' = routes_of(other)
    /\ total_distance' = other.total_distance
    /\ vehicle_pos' = other.vehicle_pos
    /\ route_stops' = other.route_stops
    /\ current' = other.current
    /\ route_distance' = other.route_distance
    /\ capacity_used' = other.capacity_used
    /\ result' = other.result
    /\ raised' = other.raised
    /\ UNCHANGED <<ORTOOLS_AVAILABLE, max_waypoints, max_vehicles, entry,
                   waypoints, depot, returned, previous, change>>

\* ---- the inputs of a call ----

LocationListsOver(lengths, demands, windows) ==
    UNION { { [i \in 1 .. n |->
                  Location(i - 1, a[i][1], a[i][2], w[1], w[2])]
              : a \in [1 .. n -> Latitudes \X demands], w \in windows }
            : n \in lengths }

LocationLists == LocationListsOver(0 .. MaxLocs, Demands, Windows)

VehicleLists ==
    UNION { { [k \in 1 .. m |-> Vehicle("truck_" \o ToString(k), c[k])]
              : c \in [1 .. m -> Capacities] }
            : m \in 0 .. MaxVehicles }

VehicleArguments ==
    { [is_none |-> TRUE, items |-> <<>>] }
    \cup { [is_none |-> FALSE, items |-> vs] : vs \in VehicleLists }

\* the locals of the two solvers and the state of the caller before a call
NothingYet ==
    /\ vehicles = <<>>
    /\ calls = <<>>
    /\ distance_matrix = <<>>
    /\ time_matrix = <<>>
    /\ unvisited = {}
    /\ routes = <<>>
    /\ total_distance = 0
    /\ vehicle_pos = 0
    /\ route_stops = <<>>
    /\ current = None
    /\ route_distance = 0
    /\ capacity_used = 0
    /\ result = NoResult
    /\ raised = ""
    /\ returned = NoDict
    /\ previous = [result |-> NoResult, calls |-> <<>>]
    /\ change = ""
    /\ other = NoFrame

\* the locations of a call: while the exact solver is unavailable nothing
\* reads a time window, and the lists are drawn without windows (the
\* fallback meets lists with windows when the exact solver raises)
LocationListsFor(available) ==
    IF available THEN LocationLists
    ELSE LocationListsOver(0 .. MaxLocs, Demands, {<<None, None>>})

\* a call of optimize, the optimizer configured for max_waypoints
Init ==
    /\ ORTOOLS_AVAILABLE \in BOOLEAN
    /\ max_waypoints \in WaypointLimits
    /\ max_vehicles = MaxVehicles
    /\ locations \in LocationListsFor(ORTOOLS_AVAILABLE)
    /\ arg_vehicles \in VehicleArguments
    /\ depot_index \in DepotIndexes
    /\ objective = "distance"
    /\ pc = "optimize"
    /\ entry = "optimize"
    /\ waypoints = <<>>
    /\ depot = None
    /\ NothingYet

\* a call of optimize_simple
InitSimple ==
    /\ ORTOOLS_AVAILABLE \in BOOLEAN
    /\ max_waypoints \in WaypointLimits
    /\ max_vehicles = MaxVehicles
    /\ locations = <<>>
    /\ arg_vehicles = [is_none |-> TRUE, items |-> <<>>]
    /\ depot_index = 0
    /\ objective = "distance"
    /\ pc = "simple"
    /\ entry = "optimize_simple"
    /\ waypoints \in UNION { [1 .. n -> Latitudes] : n \in 0 .. MaxLocs }
    /\ depot \in {None} \cup Latitudes
    /\ NothingYet

\* one call of optimize
Next ==
    \/ Optimize
    \/ OrtoolsOptimize
    \/ FallbackInit
    \/ VehicleLoop
    \/ SelectNearest
    \/ CloseRoute
    \/ FallbackReturn

Spec == Init /\ [][Next]_vars

\* one call of optimize_simple
NextSimple ==
    \/ Next
    \/ OptimizeSimple
    \/ SimpleReturn

SpecSimple == InitSimple /\ [][NextSimple]_vars

\* ---- calls on a configured fleet ----

\* every vehicle of a fleet declares the same start and end
Terminals == { <<0, None>>, <<1, None>>, <<0, 1>> }

FleetLists ==
    UNION { { [k \in 1 .. m |->
                  VehicleWith("truck_" \o ToString(k), c[k], t[1], t[2], 1)]
              : c \in [1 .. m -> Capacities], t \in Terminals }
            : m \in 1 .. MaxVehicles }

\* a call of optimize with vehicles that start and end where they declare,
\* the optimizer configured for max_waypoints and max_vehicles
InitFleet ==
    /\ ORTOOLS_AVAILABLE \in BOOLEAN
    /\ max_waypoints \in WaypointLimits
    /\ max_vehicles \in VehicleLimits
    /\ locations \in LocationListsOver(0 .. MaxLocs, Demands \ {0},
                                       {<<None, None>>})
    /\ arg_vehicles \in
           { [is_none |-> TRUE, items |-> <<>>] }
           \cup { [is_none |-> FALSE, items |-> vs] : vs \in FleetLists }
    /\ depot_index \in DepotIndexes
    /\ objective = "distance"
    /\ pc = "optimize"
    /\ entry = "optimize"
    /\ waypoints = <<>>
    /\ depot = None
    /\ NothingYet

SpecFleet == InitFleet /\ [][Next]_vars

\* ---- two solves in a row ----

RatedLists ==
    UNION { { [k \in 1 .. m |->
                  VehicleWith("truck_" \o ToString(k), c[k], 0, None, 1)]
              : c \in [1 .. m -> Capacities] }
            : m \in 1 .. MaxVehicles }

\* a first call of optimize that passes the validation
InitTwice ==
    /\ ORTOOLS_AVAILABLE \in BOOLEAN
    /\ max_waypoints = MaxLocs
    /\ max_vehicles = MaxVehicles
    /\ locations \in LocationListsOver(2 .. MaxLocs, Demands \ {0},
                                       {<<None, None>>})
    /\ arg_vehicles \in
           { [is_none |-> TRUE, items |-> <<>>] }
           \cup { [is_none |-> FALSE, items |-> vs] : vs \in RatedLists }
    /\ depot_index \in { d \in DepotIndexes : d >= 0 }
    /\ objective = "distance"
    /\ pc = "optimize"
    /\ entry = "optimize"
    /\ waypoints = <<>>
    /\ depot = None
    /\ NothingYet

NextTwice ==
    \/ Next
    \/ SolveAgain

SpecTwice == InitTwice /\ [][NextTwice]_vars

\* ---- calls on locations with service times of their own ----

\* the locations with the service_time of each replaced by times[k]
WithServiceTimes(locs, times) ==
    [k \in 1 .. Len(locs) |-> [locs[k] EXCEPT !.service_time = times[k]]]

ServicedLists ==
    UNION { { WithServiceTimes(locs, times)
              : times \in [1 .. Len(locs) -> ServiceTimes] }
            : locs \in LocationListsOver(2 .. MaxLocs, {1}, {<<None, None>>}) }

\* a call of optimize that reaches the exact solver and its matrices
InitServiced ==
    /\ ORTOOLS_AVAILABLE = TRUE
    /\ max_waypoints = MaxLocs
    /\ max_vehicles = MaxVehicles
    /\ locations \in ServicedLists
    /\ arg_vehicles \in
           { [is_none |-> TRUE, items |-> <<>>] }
           \cup { [is_none |-> FALSE, items |-> vs] : vs \in RatedLists }
    /\ depot_index \in { d \in DepotIndexes : d >= 0 }
    /\ objective = "distance"
    /\ pc = "optimize"
    /\ entry = "optimize"
    /\ waypoints = <<>>
    /\ depot = None
    /\ NothingYet

SpecServiced == InitServiced /\ [][Next]_vars

\* ---- the dictionary of a result ----

\* floats of three decimals and more, none of them half-way between two
\* neighbours of the rounding
Totals == {0, 1505670, 123400, 999960}

\* result.to_dict()
ToDict ==
    /\ pc = "dict"
    /\ returned' = to_dict(result)
    /\ pc' = "returned"
    /\ UNCHANGED <<inputs, vehicles, calls, exact_locals, fallback_locals,
                   result, raised, entry, waypoints, depot, previous, change,
                   other>>

\* an OptimizationResult as a caller may build it, before to_dict
InitDict ==
    /\ ORTOOLS_AVAILABLE = FALSE
    /\ max_waypoints = MaxLocs
    /\ max_vehicles = MaxVehicles
    /\ locations = <<>>
    /\ arg_vehicles = [is_none |-> TRUE, items |-> <<>>]
    /\ depot_index = 0
    /\ objective = "distance"
    /\ pc = "dict"
    /\ entry = "to_dict"
    /\ waypoints = <<>>
    /\ depot = None
    /\ vehicles = <<>>
    /\ calls = <<>>
    /\ distance_matrix = <<>>
    /\ time_matrix = <<>>
    /\ unvisited = {}
    /\ routes = <<>>
    /\ total_distance = 0
    /\ vehicle_pos = 0
    /\ route_stops = <<>>
    /\ current = None
    /\ route_distance = 0
    /\ capacity_used = 0
    /\ raised = ""
    /\ returned = NoDict
    /\ change = ""
    /\ other = NoFrame
    /\ \E ok \in BOOLEAN, distance \in Totals, time \in Totals,
          cost \in Totals, ms \in Totals :
          result = [OptimizationResult(ok, <<>>, <<"loc_1">>, "FEASIBLE")
                       EXCEPT !.total_distance_km = distance,
                              !.total_time_minutes = time,
                              !.total_cost = cost,
                              !.computation_time_ms = ms]
    /\ previous = [result |-> result, calls |-> <<>>]

SpecDict == InitDict /\ [][ToDict]_vars

\* ---- two requests at the same time ----

\* a first call of optimize that passes the validation
InitTogether ==
    /\ ORTOOLS_AVAILABLE \in BOOLEAN
    /\ max_waypoints = MaxLocs
    /\ max_vehicles = MaxVehicles
    /\ locations \in LocationListsOver({MaxLocs}, {1}, {<<None, None>>})
    /\ arg_vehicles \in
           { [is_none |-> TRUE, items |-> <<>>] }
           \cup { [is_none |-> FALSE, items |-> vs] : vs \in RatedLists }
    /\ depot_index = 0
    /\ objective = "distance"
    /\ pc = "optimize"
    /\ entry = "optimize"
    /\ waypoints = <<>>
    /\ depot = None
    /\ NothingYet

NextTogether ==
    \/ Next
    \/ SolveTogether
    \/ Switch

SpecTogether == InitTogether /\ [][NextTogether]_vars

\* ---- calls whose locations declare their own time windows ----

\* both bounds, one bound or none; 200 minutes are enough to drive one
\* degree of latitude and serve, but not to do so after another delivery
OwnWindows ==
    { <<None, None>>, <<None, 0>>, <<0, 0>>, <<0, 200>>,
      <<200, MaxTimePerVehicle>> }

WindowedLists ==
    UNION { { [i \in 1 .. n |->
                  Location(i - 1, a[i][1], 1, a[i][2][1], a[i][2][2])]
              : a \in [1 .. n -> Latitudes \X OwnWindows] }
            : n \in 2 .. MaxLocs }

\* the default vehicle, or two vans that each can load every delivery
TwoVans ==
    <<Vehicle("van_1", DefaultCapacity), Vehicle("van_2", DefaultCapacity)>>

InitWindows ==
    /\ ORTOOLS_AVAILABLE = TRUE
    /\ max_waypoints = MaxLocs
    /\ max_vehicles = MaxVehicles
    /\ locations \in WindowedLists
    /\ arg_vehicles \in { [is_none |-> TRUE, items |-> <<>>],
                          [is_none |-> FALSE, items |-> TwoVans] }
    /\ depot_index = 0
    /\ objective = "distance"
    /\ pc = "optimize"
    /\ entry = "optimize"
    /\ waypoints = <<>>
    /\ depot = None
    /\ NothingYet

SpecWindows == InitWindows /\ [][Next]_vars

\* ---- calls that run the heuristic to its end ----

\* a call with a valid depot_index that passes the validation; the
\* heuristic runs when the exact solver is unavailable or raises
InitHeuristic ==
    /\ ORTOOLS_AVAILABLE \in BOOLEAN
    /\ max_waypoints = MaxLocs
    /\ max_vehicles = MaxVehicles
    /\ locations \in LocationListsOver(2 .. MaxLocs, Demands \ {0},
                                       {<<None, None>>})
    /\ arg_vehicles \in
           { [is_none |-> TRUE, items |-> <<>>] }
           \cup { [is_none |-> FALSE, items |-> vs] : vs \in RatedLists }
    /\ depot_index \in { d \in DepotIndexes : d >= 0 }
    /\ objective = "distance"
    /\ pc = "optimize"
    /\ entry = "optimize"
    /\ waypoints = <<>>
    /\ depot = None
    /\ NothingYet

\* the call runs in one thread and nothing suspends it: a statement that
\* can be executed is executed
SpecHeuristic == InitHeuristic /\ [][Next]_vars /\ WF_vars(Next)

\* ---- vocabulary of the properties ----

Returned == pc = "done"
Escaped == pc = "raised"
Ended == Returned \/ Escaped

Entered(solver) == \E k \in 1 .. Len(calls) : calls[k] = solver
ExactRaised == calls = <<"ortools", "fallback">>
Validated == NumLocations >= 2 /\ NumLocations <= max_waypoints

Indexes == 0 .. (NumLocations - 1)
Deliveries == Indexes \ {depot_index}

IndexOfId(id) == CHOOSE i \in Indexes : Loc(i).id = id
VehicleOfRoute(route) ==
    CHOOSE v \in 1 .. Len(vehicles) : vehicles[v].id = route.vehicle_id

\* the locations a route passes through
RouteIndexes(route) ==
    { IndexOfId(route.stops[k].location_id) : k \in 1 .. Len(route.stops) }

RECURSIVE SetDemand(_)
SetDemand(S) ==
    IF S = {} THEN 0
    ELSE LET i == CHOOSE x \in S : TRUE
         IN  Loc(i).demand + SetDemand(S \ {i})

\* how often an id is a stop of some route or an entry of unassigned
StopCount(route, id) ==
    Cardinality({ k \in 1 .. Len(route.stops) : route.stops[k].location_id = id })
RECURSIVE RoutesCount(_, _)
RoutesCount(rts, id) ==
    IF rts = <<>> THEN 0
    ELSE StopCount(Head(rts), id) + RoutesCount(Tail(rts), id)
UnassignedCount(id) ==
    Cardinality({ k \in 1 .. Len(result.unassigned_locations) :
                    result.unassigned_locations[k] = id })
RoutesHolding(id) ==
    Cardinality({ k \in 1 .. Len(result.routes) :
                    StopCount(result.routes[k], id) > 0 })

UnassignedIds ==
    { result.unassigned_locations[k] : k \in 1 .. Len(result.unassigned_locations) }

\* every status the exact path can put in solver_status
ExactStatusValues ==
    {"OPTIMAL", "FEASIBLE"} \cup { get_solver_status(st) : st \in 0 .. 6 }

RejectedResult(status) == OptimizationResult(FALSE, <<>>, <<>>, status)

\* ---- C1 ----
\* C1: every call of optimize ends by returning an OptimizationResult; no
\* exception leaves it, whatever the locations, the vehicles value, the
\* depot_index and the state of the exact solver.
C1_NoExceptionEscapes == ~Escaped

\* ---- C2 ----
\* C2: a call with fewer than 2 locations returns success = false, no
\* routes and a non-empty solver_status, and enters neither solver.
C2_TooFewLocationsRejected ==
    (Ended /\ NumLocations < 2) =>
        /\ Returned
        /\ ~result.success
        /\ result.routes = <<>>
        /\ result.solver_status # ""
        /\ calls = <<>>

\* ---- C3 ----
\* C3: a call with more locations than max_waypoints returns success =
\* false, no routes and a solver_status naming the limit, and enters neither
\* solver; a call with exactly max_waypoints locations is not rejected so.
C3_TooManyWaypointsRejected ==
    LET message == "Too many waypoints. Max: " \o ToString(max_waypoints)
    IN  /\ (Ended /\ NumLocations > max_waypoints) =>
               /\ Returned
               /\ result = RejectedResult(message)
               /\ calls = <<>>
        /\ (Ended /\ NumLocations = max_waypoints) =>
               result.solver_status # message

\* ---- C4 ----
\* C4: for 2..max_waypoints locations, when the exact solver is unavailable
\* or raises, optimize returns the result of the fallback heuristic, whose
\* solver_status is the heuristic marker, a value the exact path never
\* reports.
C4_FallbackOnSolverFailure ==
    (Ended /\ Validated /\ (~ORTOOLS_AVAILABLE \/ ExactRaised)) =>
        /\ Returned
        /\ Entered("fallback")
        /\ result.solver_status = HeuristicStatus
        /\ HeuristicStatus \notin ExactStatusValues

\* ---- C5 ----
\* C5: in every returned route, the demand of the distinct locations the
\* route passes through, the depot included, summed, is at most the
\* capacity of the route's vehicle.
C5_CapacityRespected ==
    Returned =>
        \A k \in 1 .. Len(result.routes) :
            SetDemand(RouteIndexes(result.routes[k]))
                <= vehicles[VehicleOfRoute(result.routes[k])].capacity

\* ---- C6 ----
\* C6 as stated: in a successful result every location id is in exactly
\* one route's stop list or in unassigned_locations, never in both and
\* never in neither.
C6_EveryIdInOnePlace ==
    (Returned /\ result.success) =>
        \A i \in Indexes :
            RoutesHolding(Loc(i).id) + UnassignedCount(Loc(i).id) = 1

\* C6 amended: in a successful result every location id other than the
\* depot's occurs exactly once, as one stop of one route or as one entry of
\* unassigned_locations; the depot's id is never in unassigned_locations and
\* is a stop of every route.
C6_DeliveriesInOnePlace ==
    (Returned /\ result.success) =>
        /\ \A i \in Deliveries :
               RoutesCount(result.routes, Loc(i).id)
                   + UnassignedCount(Loc(i).id) = 1
        /\ UnassignedCount(Loc(depot_index).id) = 0
        /\ \A k \in 1 .. Len(result.routes) :
               StopCount(result.routes[k], Loc(depot_index).id) > 0

\* the fallback put one delivery on a route and left the other unassigned
C6_Witness ==
    /\ Returned
    /\ result.success
    /\ Entered("fallback")
    /\ Len(result.routes) = 1
    /\ Len(result.unassigned_locations) = 1

\* ---- C7 ----
\* C7: on either path, when some locations fit no vehicle (their demand is
\* above every vehicle's capacity), the call still returns success = true
\* and lists those locations in unassigned_locations.
Unplaceable ==
    { i \in Deliveries :
        \A v \in 1 .. Len(vehicles) : Loc(i).demand > vehicles[v].capacity }

C7_PartialInfeasibilitySucceeds ==
    (Returned /\ calls # <<>> /\ Unplaceable # {}) =>
        /\ result.success
        /\ { Loc(i).id : i \in Unplaceable } \subseteq UnassignedIds

\* ---- C8 ----
\* C8: when the fallback ran, success is true unless the fallback placed no
\* route at all, and then success is false.
C8_FallbackSuccessIffRoutes ==
    (Returned /\ Entered("fallback")) =>
        (result.success <=> result.routes # <<>>)

\* ---- C9 ----
\* the input of C9: a depot and one delivery, one vehicle whose capacity is
\* at least the delivery's demand
TheDelivery == CHOOSE i \in Deliveries : TRUE

DepotAndOneDelivery ==
    /\ NumLocations = 2
    /\ ValidIndex(depot_index)
    /\ Len(vehicles) = 1
    /\ vehicles[1].capacity >= Loc(TheDelivery).demand

OneRouteWithTheDelivery ==
    /\ Returned
    /\ result.success
    /\ Len(result.routes) = 1
    /\ StopCount(result.routes[1], Loc(TheDelivery).id) = 1
    /\ result.unassigned_locations = <<>>

ExactCanServeTheDelivery ==
    /\ Loc(depot_index).demand + Loc(TheDelivery).demand <= vehicles[1].capacity
    /\ TimeDimension(1, <<TheDelivery>>)

EveryRouteHasADelivery ==
    \A k \in 1 .. Len(result.routes) :
        \E i \in Deliveries : StopCount(result.routes[k], Loc(i).id) > 0

TwoVehiclesNeeded ==
    /\ Validated
    /\ ValidIndex(depot_index)
    /\ Len(vehicles) = 2
    /\ \A v \in 1 .. 2 : SetDemand(Deliveries) > vehicles[v].capacity
    /\ SetDemand(Deliveries) <= vehicles[1].capacity + vehicles[2].capacity
    /\ \A i \in Deliveries, v \in 1 .. 2 : Loc(i).demand <= vehicles[v].capacity

SecondSolve(what) == Returned /\ change = what

BothByFallback == previous.calls = <<"fallback">> /\ calls = <<"fallback">>

\* two deliveries at the same distance from the depot, each fitting in the
\* first vehicle: the first selection of the heuristic meets a tie
TieAtTheDepot ==
    \E i, j \in Deliveries :
        /\ i # j
        /\ Loc(i).latitude = Loc(j).latitude
        /\ Loc(i).demand <= vehicles[1].capacity
        /\ Loc(j).demand <= vehicles[1].capacity

\* C11: a second fallback solve on the same locations, vehicles and
\* depot_index returns the result of the first: the same routes (vehicles
\* and stop sequences), unassigned_locations and total distance, also when
\* unvisited locations are equidistant from the current position.
C11_FallbackDeterministic ==
    (SecondSolve("none") /\ BothByFallback) => result = previous.result

C11_Witness ==
    /\ SecondSolve("none")
    /\ BothByFallback
    /\ TieAtTheDepot
    /\ Len(result.routes) > 0
    /\ result = previous.result

\* ---- C12 ----
\* C12: a call whose vehicles list is longer than max_vehicles is not
\* solved: it returns success = false and no routes, as a call with more
\* than max_waypoints locations does.
C12_TooManyVehiclesRejected ==
    (Returned /\ ~arg_vehicles.is_none
              /\ Len(arg_vehicles.items) > max_vehicles) =>
        /\ ~result.success
        /\ result.routes = <<>>

\* ---- C13 ----
FirstStop(route) == route.stops[1].location_id
LastStop(route) == route.stops[Len(route.stops)].location_id

EndOf(vehicle) ==
    IF vehicle.end_location_idx = None THEN vehicle.start_location_idx
    ELSE vehicle.end_location_idx

\* C13: in every returned route the first stop is the location at the
\* vehicle's start_location_idx and the last stop the location at its
\* end_location_idx, or at start_location_idx when end_location_idx is None.
C13_RoutesStartAndEndAtTerminals ==
    Returned =>
        \A k \in 1 .. Len(result.routes) :
            LET route == result.routes[k]
                vehicle == vehicles[VehicleOfRoute(route)]
            IN  /\ FirstStop(route) = Loc(vehicle.start_location_idx).id
                /\ LastStop(route) = Loc(EndOf(vehicle)).id

\* ---- C14 ----
\* C14: in a call of optimize with vehicles omitted, the arguments of the
\* caller stay as they are, the call solves with the single vehicle
\* 'vehicle_1' of capacity 1000, and the result it returns has at most one
\* route, whose vehicle_id is 'vehicle_1'.
C14_DefaultVehicle ==
    [][(entry = "optimize" /\ arg_vehicles.is_none) =>
          /\ arg_vehicles' = arg_vehicles
          /\ locations' = locations
          /\ depot_index' = depot_index
          /\ pc' # "optimize" =>
                 /\ Len(vehicles') = 1
                 /\ vehicles'[1].id = "vehicle_1"
                 /\ vehicles'[1].capacity = 1000
          /\ pc' = "done" =>
                 /\ Len(result'.routes) <= 1
                 /\ \A k \in 1 .. Len(result'.routes) :
                        result'.routes[k].vehicle_id = "vehicle_1"]_vars

C14_Witness ==
    /\ entry = "optimize"
    /\ arg_vehicles.is_none
    /\ Returned
    /\ Len(result.routes) = 1
    /\ result.routes[1].vehicle_id = "vehicle_1"

\* ---- C15 ----
\* the waypoints that come before the stops: the first one when it serves
\* as the depot
WaypointsUsedAsDepot == IF depot # None THEN 0 ELSE 1

\* the list has one depot record in front and one stop record for every
\* other waypoint, in input order
DepotThenStops ==
    /\ Len(locations) >= 1
    /\ Len(locations) = 1 + Len(waypoints) - WaypointsUsedAsDepot
    /\ locations[1].id = "depot"
    /\ locations[1].demand = 0
    /\ locations[1].latitude = IF depot # None THEN depot ELSE waypoints[1]
    /\ \A k \in 2 .. Len(locations) :
           /\ locations[k].id # "depot"
           /\ locations[k].demand = 1
           /\ locations[k].service_time = 10
           /\ locations[k].latitude = waypoints[k - 1 + WaypointsUsedAsDepot]

\* optimize is called on that list with its defaults, and its result comes
\* back as the dictionary of to_dict
ReturnsOptimizeToDict ==
    /\ arg_vehicles.is_none
    /\ depot_index = 0
    /\ pc \notin {"optimize", "raised"} =>
           vehicles = <<Vehicle("vehicle_1", 1000)>>
    /\ pc = "returned" =>
           /\ returned.success = result.success
           /\ returned.routes = result.routes
           /\ returned.unassigned_locations = result.unassigned_locations
           /\ returned.solver_status = result.solver_status
           /\ returned.total_distance_km = Round2(result.total_distance_km)
           /\ returned.total_time_minutes = result.total_time_minutes
           /\ returned.total_cost = Round2(result.total_cost)

SimpleCalled == entry = "optimize_simple" /\ pc # "simple"

\* C15 as stated: optimize_simple builds a list with exactly one depot
\* record (id 'depot', demand 0) at index 0, the given depot or else the
\* first waypoint, and one record of demand 1 and service time 10 for every
\* other waypoint, in input order, and returns optimize(list).to_dict().
C15_SimpleBuildsDepotFirst ==
    SimpleCalled => (DepotThenStops /\ ReturnsOptimizeToDict)

NothingGiven == depot = None /\ waypoints = <<>>

\* C15 amended: the same whenever a depot is given or there is a waypoint;
\* with no depot and no waypoint the list is empty, and the dictionary is
\* that of the result optimize returns for fewer than 2 locations.
C15_SimpleBuildsDepotFirstIfAny ==
    SimpleCalled =>
        /\ ReturnsOptimizeToDict
        /\ IF NothingGiven
           THEN /\ locations = <<>>
                /\ pc = "returned" =>
                       /\ ~returned.success
                       /\ returned.routes = <<>>
                       /\ returned.solver_status
                              = "Need at least 2 locations (depot + 1 delivery)"
           ELSE DepotThenStops

C15_Witness ==
    /\ entry = "optimize_simple"
    /\ pc = "returned"
    /\ depot = None
    /\ Len(waypoints) = 3
    /\ returned.success
    /\ Len(returned.routes) = 1
    /\ Len(returned.routes[1].stops) = 4

\* ---- C16 ----
RECURSIVE SumTimes(_)
SumTimes(rts) ==
    IF rts = <<>> THEN 0 ELSE Head(rts).time_minutes + SumTimes(Tail(rts))

\* C16: in every successful result, of either solver, total_time_minutes is
\* the sum of the time_minutes of the routes listed.
C16_TotalTimeIsSumOfRouteTimes ==
    (Returned /\ result.success) =>
        result.total_time_minutes = WholeMinutes(SumTimes(result.routes))

\* ---- C17 ----
\* C17: every route of a result has at least three stops, one of them a
\* location other than the depot, and no two routes belong to the same
\* vehicle, so a vehicle whose route is only start then end adds nothing.
C17_NoTrivialRoutes ==
    Returned =>
        /\ Len(result.routes) <= Len(vehicles)
        /\ \A k \in 1 .. Len(result.routes) :
               /\ Len(result.routes[k].stops) >= 3
               /\ \E n \in 1 .. Len(result.routes[k].stops) :
                      result.routes[k].stops[n].location_id
                          # Loc(depot_index).id
               /\ \A m \in 1 .. Len(result.routes) :
                      m # k =>
                          result.routes[m].vehicle_id
                              # result.routes[k].vehicle_id

\* the first vehicle could take nothing, and only the second has a route
C17_Witness ==
    /\ Returned
    /\ Entered("fallback")
    /\ Len(vehicles) = 2
    /\ Len(result.routes) = 1
    /\ result.routes[1].vehicle_id = vehicles[2].id

\* ---- C18 ----
\* C18: a second fallback solve on inputs that differ from the first only
\* in the time windows of the locations returns the result of the first:
\* the same routes, unassigned_locations, distances and success.
C18_FallbackIgnoresTimeWindows ==
    (SecondSolve("windows") /\ BothByFallback) => result = previous.result

\* the second solve ran with windows that close before any service ends
C18_Witness ==
    /\ SecondSolve("windows")
    /\ BothByFallback
    /\ \A i \in Indexes :
           Loc(i).time_window_start = 0 /\ Loc(i).time_window_end = 0
    /\ Len(result.routes) > 0
    /\ result = previous.result

\* ---- C19 ----
\* two routes that differ at most in their cost
SameRouteButCost(r1, r2) ==
    /\ r1.vehicle_id = r2.vehicle_id
    /\ r1.stops = r2.stops
    /\ r1.distance_km = r2.distance_km
    /\ r1.time_minutes = r2.time_minutes

\* two results that differ at most in their cost fields
SameButCost(res1, res2) ==
    /\ res1.success = res2.success
    /\ res1.solver_status = res2.solver_status
    /\ res1.unassigned_locations = res2.unassigned_locations
    /\ res1.total_distance_km = res2.total_distance_km
    /\ res1.total_time_minutes = res2.total_time_minutes
    /\ Len(res1.routes) = Len(res2.routes)
    /\ \A k \in 1 .. Len(res1.routes) :
           SameRouteButCost(res1.routes[k], res2.routes[k])

\* what the exact solver may return in this state
ExactOutcomes ==
    IF ExactSolutions = {}
    THEN { NoSolutionResult(status) : status \in FailureStatuses }
    ELSE { ExactResult(plan, status)
             : plan \in ExactSolutions, status \in SolutionStatuses }

\* the length of a route as its solver measured it, before rounding: the
\* fallback adds great-circle kilometres, the exact path metres
RECURSIVE StopsKm(_)
StopsKm(stops) ==
    IF Len(stops) < 2 THEN 0
    ELSE haversine_distance(stops[1].latitude, stops[2].latitude)
         + StopsKm(Tail(stops))

RECURSIVE StopsMetres(_)
StopsMetres(stops) ==
    IF Len(stops) < 2 THEN 0
    ELSE haversine_distance(stops[1].latitude, stops[2].latitude) \div 10
         + StopsMetres(Tail(stops))

MeasuredKm(route) ==
    IF Entered("fallback") THEN StopsKm(route.stops)
    ELSE StopsMetres(route.stops) * 10

MatrixComputed == Entered("ortools") /\ pc # "ortools"

\* C20: the distance matrix of N locations has N rows of N integers, zeros
\* on the diagonal, and the same entry at [i][j] and at [j][i].
C20_DistanceMatrixSymmetric ==
    MatrixComputed =>
        /\ Len(distance_matrix) = NumLocations
        /\ \A i \in 1 .. NumLocations :
               /\ Len(distance_matrix[i]) = NumLocations
               /\ distance_matrix[i][i] = 0
               /\ \A j \in 1 .. NumLocations :
                      /\ distance_matrix[i][j] \in Nat
                      /\ distance_matrix[i][j] = distance_matrix[j][i]

C20_Witness ==
    /\ MatrixComputed
    /\ NumLocations = 3
    /\ \E i, j \in 1 .. 3 : i < j /\ distance_matrix[i][j] > 0
    /\ \E i, j \in 1 .. 3 : i < j /\ distance_matrix[i][j] = 0

\* ---- C21 ----
\* C21: the time matrix of N locations has N rows of N integers and zeros
\* on the diagonal; off the diagonal, time[i][j] is the minutes of travel
\* over distance[i][j] at the average speed plus the service time of the
\* destination j, truncated, so it is at least that service time, and
\* time[i][j] differs from time[j][i] exactly when the service times of i
\* and j differ.
C21_TimeMatrixAddsServiceOfDestination ==
    MatrixComputed =>
        /\ Len(time_matrix) = NumLocations
        /\ \A i \in 1 .. NumLocations :
               /\ Len(time_matrix[i]) = NumLocations
               /\ time_matrix[i][i] = 0
               /\ \A j \in (1 .. NumLocations) \ {i} :
                      /\ time_matrix[i][j] \in Int
                      /\ time_matrix[i][j] =
                             (distance_matrix[i][j] * 60)
                                 \div (average_speed_kmh * 1000)
                             + locations[j].service_time
                      /\ time_matrix[i][j] >= locations[j].service_time
                      /\ (time_matrix[i][j] # time_matrix[j][i])
                             <=> (locations[i].service_time
                                     # locations[j].service_time)

\* three locations, two of them a degree apart with different service times
C21_Witness ==
    /\ MatrixComputed
    /\ NumLocations = 3
    /\ \E i, j \in 1 .. 3 :
           /\ distance_matrix[i][j] > 0
           /\ locations[i].service_time < locations[j].service_time
           /\ time_matrix[i][j] > time_matrix[j][i]
           /\ time_matrix[j][i] > locations[i].service_time

\* ---- C22 ----
\* the frame of one of the two calls, running or not
ThreadFrame(thread) == IF other.thread = thread THEN other ELSE Frame(thread)

ByFallback(c) == c # <<>> /\ c[Len(c)] = "fallback"

\* the call that repeats the first request returns what that request got
\* when it ran alone: the same result from the fallback, and from the exact
\* solver a choice of results among which that one is
SameAsAlone ==
    change = "together" =>
        /\ ThreadFrame(1).raised = ""
        /\ (/\ ThreadFrame(1).pc = "done"
            /\ ByFallback(ThreadFrame(1).calls)
            /\ ByFallback(previous.calls))
               => ThreadFrame(1).result = previous.result
        /\ (other.thread = 2 /\ pc = "ortools"
                /\ previous.calls = <<"ortools">>)
               => previous.result \in ExactOutcomes

\* a step writes no field of the optimizer and not the module flag, leaves
\* the arguments of both calls as they are, and changes nothing of the call
\* that is not running
NothingShared ==
    /\ ORTOOLS_AVAILABLE' = ORTOOLS_AVAILABLE
    /\ max_waypoints' = max_waypoints
    /\ max_vehicles' = max_vehicles
    /\ (change = "together" /\ change' = "together") =>
           /\ \A thread \in 1 .. 2 :
                  /\ ThreadFrame(thread)'.locations
                         = ThreadFrame(thread).locations
                  /\ ThreadFrame(thread)'.arg_vehicles
                         = ThreadFrame(thread).arg_vehicles
                  /\ ThreadFrame(thread)'.depot_index
                         = ThreadFrame(thread).depot_index
           /\ other'.thread = other.thread => other' = other

\* C22: two calls of optimize that run at the same time on one optimizer,
\* each with its own locations and vehicles, return under every
\* interleaving what each returns alone; no step of optimize writes a field
\* of the optimizer or module state, or changes the caller's lists.
C22_ConcurrentCallsIndependent == []SameAsAlone /\ [][NothingShared]_vars

\* the repeated call has returned its routes while the other call, begun
\* before that, is in the middle of a route of its own
C22_Witness ==
    /\ change = "together"
    /\ other.thread = 2
    /\ pc = "done"
    /\ calls = <<"fallback">>
    /\ Len(result.routes) = 2
    /\ result = previous.result
    /\ other.pc = "close"
    /\ Len(other.route_stops) = 2
    /\ other.routes = <<>>

\* ---- C23 ----
\* the solvers a call may have entered, in order
SolverOrders == { <<>>, <<"ortools">>, <<"fallback">>, <<"ortools", "fallback">> }

\* C23: one call validates its input first, then attempts the exact solver
\* at most once, then runs the fallback at most once, and the fallback only
\* when the exact solver is unavailable or its attempt raised; the exact
\* solver is entered neither twice nor after the fallback.
C23_FixedOrderNoRetry ==
    /\ calls \in SolverOrders
    /\ calls # <<>> => Validated
    /\ Entered("ortools") => ORTOOLS_AVAILABLE
    /\ calls = <<"fallback">> => ~ORTOOLS_AVAILABLE
    /\ pc = "ortools" => calls = <<"ortools">>
    /\ pc \in {"fallback", "vehicle", "select", "close", "return"} =>
           Entered("fallback")
    /\ pc = "optimize" => calls = <<>>

\* the exact solver raised and the fallback, run once after it, returned
C23_Witness ==
    /\ Returned
    /\ calls = <<"ortools", "fallback">>
    /\ result.solver_status = HeuristicStatus
    /\ Len(result.routes) > 0

\* ---- C24 ----
ResultKeys ==
    {"success", "routes", "total_distance_km", "total_time_minutes",
     "total_cost", "unassigned_locations", "computation_time_ms",
     "solver_status"}

\* y is x rounded to a multiple of unit
RoundedTo(y, x, unit) ==
    /\ y % unit = 0
    /\ 2 * (y - x) <= unit
    /\ 2 * (x - y) <= unit

\* C24: the dictionary of to_dict has the keys success, routes,
\* total_distance_km, total_time_minutes, total_cost, unassigned_locations,
\* computation_time_ms and solver_status; total_distance_km and total_cost
\* are the fields rounded to 2 decimals and total_time_minutes the field
\* rounded to 1 decimal; the OptimizationResult keeps its fields.
C24_ToDictRoundsAndKeeps ==
    (entry = "to_dict" /\ pc = "returned") =>
        /\ ResultKeys \subseteq DOMAIN returned
        /\ RoundedTo(returned.total_distance_km, result.total_distance_km, 100)
        /\ RoundedTo(returned.total_cost, result.total_cost, 100)
        /\ RoundedTo(returned.total_time_minutes, result.total_time_minutes,
                     1000)
        /\ returned.success = result.success
        /\ returned.routes = result.routes
        /\ returned.unassigned_locations = result.unassigned_locations
        /\ returned.solver_status = result.solver_status
        /\ result = previous.result

\* raw 150.567 km were serialized as 150.57, and 12.34 minutes as 12.3
C24_Witness ==
    /\ entry = "to_dict"
    /\ pc = "returned"
    /\ result.total_distance_km = 1505670
    /\ returned.total_distance_km = 1505700
    /\ result.total_time_minutes = 123400
    /\ returned.total_time_minutes = 123000
    /\ result.total_cost = 999960
    /\ returned.total_cost = 1000000

\* ---- C25 ----
\* the unvisited locations whose demand fits in what the vehicle at work
\* has left: its capacity minus the demand it has loaded
RemainingCapacity == vehicles[vehicle_pos].capacity - capacity_used

Feasible == { i \in unvisited : Loc(i).demand <= RemainingCapacity }

GreatCircle(i, j) == haversine_distance(Loc(i).latitude, Loc(j).latitude)

\* one turn of the heuristic: a stop is appended only for a feasible
\* location at minimal distance from the current position, which becomes
\* the current position and is loaded; the route ends only when nothing is
\* feasible; and the vehicles come one after the other
GreedyStep ==
    /\ (pc = "select" /\ pc' = "select") =>
           \E n \in Feasible :
               /\ \A m \in Feasible : GreatCircle(current, n) <= GreatCircle(current, m)
               /\ unvisited' = unvisited \ {n}
               /\ current' = n
               /\ capacity_used' = capacity_used + Loc(n).demand
               /\ route_stops' = Append(route_stops, Stop(n, Len(route_stops)))
               /\ vehicle_pos' = vehicle_pos
    /\ (pc = "select" /\ pc' # "select") =>
           /\ Feasible = {}
           /\ unvisited' = unvisited
    /\ pc = "select" => depot_index \notin unvisited
    /\ vehicle_pos' # vehicle_pos =>
           /\ vehicle_pos' = vehicle_pos + 1
           /\ pc \in {"fallback", "close"}
    /\ (pc = "vehicle" /\ pc' = "select") =>
           /\ current' = depot_index
           /\ capacity_used' = 0

\* C25: the fallback takes the vehicles in list order; every stop it
\* appends for a vehicle is, among the unvisited locations other than the
\* depot whose demand fits the vehicle's remaining capacity, one at minimal
\* great-circle distance from the vehicle's current position; a vehicle
\* stops only when no such location is left.
C25_GreedyNearestFeasible == [][GreedyStep]_vars

\* the vehicle went to the nearer location 2 and left location 1, which
\* fits as well, for later
C25_Witness ==
    /\ pc = "select"
    /\ NumLocations = 3
    /\ depot_index = 0
    /\ route_stops = <<Stop(0, 0), Stop(2, 1)>>
    /\ 1 \in Feasible
    /\ GreatCircle(0, 2) < GreatCircle(0, 1)

ExactPath == Returned /\ calls = <<"ortools">>

\* C27: on the exact path success is true exactly when the solver returned
\* a solution; then solver_status is 'OPTIMAL' or 'FEASIBLE'; without a
\* solution the result has success = false, no routes and the name of the
\* solver's status as solver_status; the fallback is not entered.
C27_ExactSuccessIffSolution ==
    ExactPath =>
        /\ result.success <=> ExactSolutions # {}
        /\ result.success => result.solver_status \in {"OPTIMAL", "FEASIBLE"}
        /\ ~result.success =>
               /\ result.routes = <<>>
               /\ result.unassigned_locations = <<>>
               /\ result.solver_status
                      \in { get_solver_status(st) : st \in 0 .. 6 }
               /\ result.solver_status \notin {"OPTIMAL", "FEASIBLE", ""}
        /\ ~Entered("fallback")
        /\ result.solver_status # HeuristicStatus

\* no vehicle can load the deliveries, and the solver reported its failure
C27_Witness ==
    /\ ExactPath
    /\ ExactSolutions = {}
    /\ ~result.success
    /\ result.routes = <<>>
    /\ result.solver_status = "ROUTING_FAIL"

\* ---- C28 ----
DeclaresBoth(i) ==
    Loc(i).time_window_start # None /\ Loc(i).time_window_end # None
DeclaresOne(i) ==
    (Loc(i).time_window_start # None) # (Loc(i).time_window_end # None)

\* the nodes of a route in the order of its stops
NodesOf(route) ==
    [k \in 1 .. Len(route.stops) |-> IndexOfId(route.stops[k].location_id)]

\* the minutes of transit from the start of a route to its k-th stop
MinutesTo(route, k) == PathTime(SubSeq(NodesOf(route), 1, k))

\* the k-th stop of a route can have a cumul inside its own window: the
\* transits alone do not pass its end, and leaving the depot as late as
\* the depot's window (or the horizon) allows, with every slack used, its
\* start is reached
InsideWindow(route, k) ==
    LET i == NodesOf(route)[k]
        first == VehicleOfRoute(route) = 1 /\ DeclaresBoth(depot_index)
        leave == IF first THEN Loc(depot_index).time_window_end
                 ELSE MaxTimePerVehicle
    IN  /\ MinutesTo(route, k) <= Loc(i).time_window_end
        /\ leave + MinutesTo(route, k) + TimeSlack * (k - 1)
               >= Loc(i).time_window_start

\* C28: a 'Time' dimension constrains the exact solver exactly when some
\* location declares both time_window_start and time_window_end: without
\* such a location every call whose loads fit succeeds, whatever single
\* bounds are declared; with one, every delivery that declares both bounds
\* is visited inside its window, and a delivery that cannot be reached
\* before its end leaves the solver without a solution.
C28_TimeWindowsOnlyWhenBothDeclared ==
    ExactPath =>
        /\ (\A i \in Indexes : ~DeclaresBoth(i)) => result.success
        /\ result.success =>
               \A r \in 1 .. Len(result.routes) :
                   \A k \in 2 .. (Len(result.routes[r].stops) - 1) :
                       DeclaresBoth(NodesOf(result.routes[r])[k]) =>
                           InsideWindow(result.routes[r], k)
        /\ (\E i \in Deliveries :
                /\ DeclaresBoth(i)
                /\ compute_time_matrix(depot_index, i)
                       > Loc(i).time_window_end) => ~result.success

\* a delivery that declares both bounds is served inside them, in a call
\* where another delivery declares only an end that no vehicle can meet
C28_Witness ==
    /\ ExactPath
    /\ result.success
    /\ \E i \in Deliveries : DeclaresBoth(i) /\ Loc(i).time_window_end = 200
    /\ \E i \in Deliveries :
           /\ DeclaresOne(i)
           /\ Loc(i).time_window_end = 0
           /\ compute_time_matrix(depot_index, i) > 0

\* ---- C29 ----
\* the demand a vehicle has loaded: that of the deliveries of its route, and
\* nothing when the result has no route for it
LoadedOn(v) ==
    LET own == { r \in 1 .. Len(result.routes) :
                   result.routes[r].vehicle_id = vehicles[v].id }
    IN  IF own = {} THEN 0
        ELSE SetDemand(UNION { RouteIndexes(result.routes[r]) : r \in own }
                       \ {depot_index})

\* C29: what the fallback leaves unassigned fits on no vehicle: for every
\* id of unassigned_locations and every input vehicle, the demand of the
\* location plus the demand loaded on the vehicle's route exceeds the
\* capacity of the vehicle; and nothing is unassigned when the loop over
\* the vehicles ended because every location had been visited.
C29_FallbackLeavesOnlyWhatFitsNowhere ==
    (Returned /\ Entered("fallback")) =>
        /\ \A k \in 1 .. Len(result.unassigned_locations) :
               \A v \in 1 .. Len(vehicles) :
                   Loc(IndexOfId(result.unassigned_locations[k])).demand
                       + LoadedOn(v) > vehicles[v].capacity
        /\ unvisited = {} => result.unassigned_locations = <<>>
        /\ result.unassigned_locations = <<>> => unvisited = {}

\* one of two vehicles carries a delivery, the other has no route, and a
\* second delivery stays behind
C29_Witness ==
    /\ Returned
    /\ Entered("fallback")
    /\ Len(vehicles) = 2
    /\ Len(result.routes) = 1
    /\ Len(result.unassigned_locations) = 1
    /\ \E v \in 1 .. Len(vehicles) : LoadedOn(v) > 0
    /\ \E v \in 1 .. Len(vehicles) : LoadedOn(v) = 0

\* ---- C30 ----
\* the deliveries of the routes of a result
RECURSIVE DeliveryCount(_)
DeliveryCount(rts) ==
    IF rts = <<>> THEN 0
    ELSE (Len(Head(rts).stops) - 2) + DeliveryCount(Tail(rts))

\* one turn of the inner loop takes exactly one location out of unvisited
\* and stays in the loop, or takes none and ends the route
TurnShrinksOrEnds ==
    pc = "select" =>
        \/ /\ pc' = "select"
           /\ unvisited' \subseteq unvisited
           /\ Cardinality(unvisited') = Cardinality(unvisited) - 1
           /\ Len(route_stops') = Len(route_stops) + 1
        \/ /\ pc' = "close"
           /\ unvisited' = unvisited
           /\ route_stops' = route_stops

\* the loop over the vehicles takes the vehicles one after the other, each
\* at most once, and starts no route when nothing is left to visit
VehiclesInTurn ==
    /\ vehicle_pos' # vehicle_pos =>
           \/ pc = "fallback" /\ vehicle_pos' = 1
           \/ pc = "close" /\ vehicle_pos' = vehicle_pos + 1
    /\ (pc = "vehicle" /\ unvisited = {}) => pc' = "return"
    /\ (pc = "vehicle" /\ pc' = "select") => vehicle_pos <= Len(vehicles)

\* never more selections than deliveries, never more routes than vehicles
SelectionsBounded ==
    /\ pc \in {"vehicle", "select", "close", "return"} =>
           /\ vehicle_pos <= Len(vehicles) + 1
           /\ Len(routes) < vehicle_pos
           /\ DeliveryCount(routes) + Cardinality(unvisited)
                  <= NumLocations - 1
    /\ (Returned /\ Entered("fallback")) =>
           /\ DeliveryCount(result.routes)
                  + Len(result.unassigned_locations) = NumLocations - 1
           /\ Len(result.routes) <= Len(vehicles)

\* C30: the fallback heuristic terminates on every finite input with a
\* valid depot_index: once entered it returns; each turn of the inner loop
\* removes exactly one location from unvisited or ends the route, so there
\* are at most N - 1 selections; the loop over the vehicles runs at most
\* once for each vehicle and stops early when unvisited is empty.
C30_FallbackTerminates ==
    /\ (pc = "fallback") ~> Returned
    /\ [][TurnShrinksOrEnds /\ VehiclesInTurn]_vars
    /\ []SelectionsBounded

\* the first of two vehicles took both deliveries and the second was never
\* started
C30_Witness ==
    /\ Returned
    /\ Entered("fallback")
    /\ NumLocations = 3
    /\ Len(vehicles) = 2
    /\ vehicle_pos = 2
    /\ unvisited = {}
    /\ Len(result.routes) = 1
    /\ DeliveryCount(result.routes) = 2

====
